---- MODULE Spec2Model ----
(***************************************************************************)
(* Model of the conversational AI service (backend/services/ai):           *)
(*   models/intent.py, models/conversation.py  - Intent, Message,          *)
(*                                               Conversation              *)
(*   services/llm_service.py                   - LLMService                *)
(*   api/endpoints/conversation.py             - ConversationEndpoints     *)
(*   services/context_service.py               - ContextService            *)
(*                                                                         *)
(* Numbers.  Confidences, thresholds and sentiment scores are floats in    *)
(* the code; here they are integers counting hundredths (0.7 is 70).  The  *)
(* running average is kept as an exact fraction avg_num / avg_den of       *)
(* hundredths, so IEEE rounding is abstracted to exact arithmetic.         *)
(***************************************************************************)
EXTENDS Integers, Sequences, FiniteSets, TLC

VARIABLES
    probe,      \* an Intent under evaluation by both should_handoff methods
    conv,       \* the Conversation aggregate (models/conversation.py)
    lastOp,     \* the last operation applied to the aggregate and its outcome
    store,      \* the cached context as the requests load and put it
    req,        \* per request: position inside the endpoint / process_message
    redis,      \* the cache backend's key context:1.0:c1
    circuit_breaker,    \* ContextService.circuit_breaker
    now,        \* datetime.utcnow(), in seconds
    call,       \* the last ContextService call and its outcome
    llm,        \* LLMService.processing_semaphore and the calls at it
    task        \* the last background _update_conversation task

ctxVars == <<redis, circuit_breaker, now, call>>

vars == <<probe, conv, lastOp, store, req, ctxVars, llm, task>>

-----------------------------------------------------------------------------
(* Program constants                                                       *)

MIN_CONFIDENCE == 0
MAX_CONFIDENCE == 100
DEFAULT_HANDOFF_THRESHOLD == 70
MAX_RESPONSE_TIME_SLA == 500
CONFIDENCE_THRESHOLD == 85
ComplaintThreshold == 90
SentimentThreshold == 30
GenerateMinConfidence == 70
MaxAttempts == 3

IntentType == {"greeting", "question", "complaint", "request_human",
               "farewell", "unknown"}

ConversationStatus == {"active", "human_needed", "completed", "archived"}

HandoffPlaceholder == "Connecting you with a human agent..."

-----------------------------------------------------------------------------
(* Intent metadata.  Only the two keys the handoff rule reads are kept;    *)
(* a key the mapping does not hold is the sentinel Absent / "absent".      *)

Absent == 0 - 1

EmptyMetadata == [sentiment_score |-> Absent, urgent |-> "absent"]

\* dict.get("sentiment_score", 1.0)
GetSentiment(md) ==
    IF md.sentiment_score = Absent THEN 100 ELSE md.sentiment_score

\* dict.get("urgent", False), taken as a truth value
GetUrgent(md) == md.urgent = "true"

-----------------------------------------------------------------------------
(* models/intent.py: Intent.should_handoff(confidence_threshold=0.7)       *)

\* the complaint rule applied to the confident complaints
IntentModuleShouldHandoffConfidentComplaint(i, threshold) ==
    IF ~(0 <= threshold /\ threshold <= 100) THEN "ValueError"
    ELSE IF i.requires_human THEN "true"
    ELSE IF i.confidence < threshold THEN "true"
    ELSE IF i.type = "request_human" THEN "true"
    ELSE IF i.type = "complaint" /\ i.confidence >= ComplaintThreshold THEN "true"
    ELSE "false"

\* the threshold validated after the requires_human test
IntentModuleShouldHandoffLateValidation(i, threshold) ==
    IF i.requires_human THEN "true"
    ELSE IF ~(0 <= threshold /\ threshold <= 100) THEN "ValueError"
    ELSE IF i.confidence < threshold THEN "true"
    ELSE IF i.type = "request_human" THEN "true"
    ELSE IF i.type = "complaint" /\ i.confidence < ComplaintThreshold THEN "true"
    ELSE "false"

\* "true" / "false", or the exception raised for a threshold outside [0, 1]
IntentModuleShouldHandoff(i, threshold) ==
    IF ~(0 <= threshold /\ threshold <= 100) THEN "ValueError"
    ELSE IF i.requires_human THEN "true"
    ELSE IF i.confidence < threshold THEN "true"
    ELSE IF i.type = "request_human" THEN "true"
    ELSE IF i.type = "complaint" /\ i.confidence < ComplaintThreshold THEN "true"
    ELSE "false"

(* models/conversation.py: Intent.should_handoff()                         *)

should_handoff(i) ==
    IF i.requires_human THEN TRUE
    ELSE IF i.confidence < DEFAULT_HANDOFF_THRESHOLD THEN TRUE
    ELSE IF i.type = "request_human" THEN TRUE
    ELSE IF GetSentiment(i.metadata) < SentimentThreshold THEN TRUE
    ELSE IF GetUrgent(i.metadata) THEN TRUE
    ELSE FALSE

-----------------------------------------------------------------------------
(* Intents.  Intent fields as declared in models/conversation.py; the      *)
(* field constraints ge=0, le=1 on confidence hold of every instance.      *)

MkIntent(t, c, rh, md) ==
    [type |-> t, confidence |-> c, requires_human |-> rh, metadata |-> md]

\* message.intent is None
NoIntent == MkIntent("none", 0, FALSE, EmptyMetadata)

ProbeConfidences == {0, 65, 69, 70, 85, 89, 90, 95, 100}
ProbeSentiments  == {Absent, 29, 30}
ProbeUrgent      == {"absent", "false", "true"}
ProbeThresholds  == {0 - 10, 0, 50, 70, 90, 100, 150}

ProbeIntents ==
    { MkIntent(t, c, rh, [sentiment_score |-> s, urgent |-> u]) :
        t \in IntentType, c \in ProbeConfidences, rh \in BOOLEAN,
        s \in ProbeSentiments, u \in ProbeUrgent }

\* The answer of POST /api/v1/intent/classify: the HTTP status and the
\* requires_human of the body, if there is one
NotCalled == [status |-> "none", requires_human |-> "none"]

\* intent.should_handoff(*args) on the Intent classify_intent returns, the
\* one of models/conversation.py, whose should_handoff takes no argument
CallShouldHandoff(i, args) ==
    IF args # << >>
    THEN [raised |-> "TypeError", value |-> "none"]
    ELSE [raised |-> "none",
          value |-> IF should_handoff(i) THEN "true" ELSE "false"]

\* classify_message_intent once classify_intent returned intent i.  Its
\* own dependency get_llm_service() calls LLMService(settings) without
\* the context_service argument and answers 503; with an LLMService
\* injected in its place the handler runs.
classify_message_intent(i, llm_service_injected) ==
    IF ~llm_service_injected
    THEN [status |-> "503", requires_human |-> "none"]
    ELSE LET requires_human ==
                 CallShouldHandoff(i, << CONFIDENCE_THRESHOLD >>) IN
         IF requires_human.raised # "none"
         THEN [status |-> "500", requires_human |-> "none"]
         ELSE [status |-> "200", requires_human |-> requires_human.value]

Unevaluated(i, threshold) ==
    [evaluated |-> FALSE, intent |-> i, threshold |-> threshold,
     intent_module |-> "unset", conversation_module |-> "unset",
     classify_endpoint |-> NotCalled]

NoProbe == Unevaluated(NoIntent, 0)

\* One evaluation of the same intent by both should_handoff methods:
\* intent.should_handoff(threshold) of models/intent.py and
\* intent.should_handoff() of models/conversation.py.
EvalShouldHandoff ==
    /\ ~probe.evaluated
    /\ probe' = [probe EXCEPT
                   !.evaluated = TRUE,
                   !.intent_module =
                       IntentModuleShouldHandoff(probe.intent, probe.threshold),
                   !.conversation_module =
                       IF should_handoff(probe.intent) THEN "true" ELSE "false"]
    /\ UNCHANGED <<conv, lastOp, store, req, ctxVars, llm, task>>

\* POST /api/v1/intent/classify for a message classified as probe.intent
ClassifyMessageIntent(llm_service_injected) ==
    /\ probe.classify_endpoint = NotCalled
    /\ probe' = [probe EXCEPT
                   !.classify_endpoint =
                       classify_message_intent(probe.intent,
                                               llm_service_injected)]
    /\ UNCHANGED <<conv, lastOp, store, req, ctxVars, llm, task>>

-----------------------------------------------------------------------------
(* models/conversation.py: Message and Conversation                        *)

ConvId  == "c1"
OtherId == "c2"

MkMessage(src, cid, content, dir, c, i) ==
    [id |-> src, conversation_id |-> cid, content |-> content,
     direction |-> dir, ai_confidence |-> c, intent |-> i]

\* Conversation(id=..., lead_id=...): the field defaults
NewConversation ==
    [id |-> ConvId, status |-> "active", messages |-> << >>,
     current_intent |-> NoIntent,
     ai_confidence_avg |-> [num |-> 100, den |-> 1]]

RECURSIVE GCD(_, _)
GCD(a, b) == IF b = 0 THEN a ELSE GCD(b, a % b)

\* a fraction in lowest terms (the float value it denotes)
Frac(n, d) ==
    IF n = 0 THEN [num |-> 0, den |-> 1]
    ELSE [num |-> n \div GCD(n, d), den |-> d \div GCD(n, d)]

\* (avg * (message_count - 1) + message.ai_confidence) / message_count,
\* message_count being the length after the append
NewAverageCountingDefault(avg, message_count, c) ==
    Frac(avg.num * message_count + c * avg.den,
         avg.den * (message_count + 1))

NewAverage(avg, message_count, c) ==
    Frac(avg.num * (message_count - 1) + c * avg.den,
         avg.den * message_count)

\* self.current_intent = message.intent, whether the message has one or not
NewCurrentIntentOfLastMessage(c, m) == m.intent

\* if message.intent: self.current_intent = message.intent
NewCurrentIntent(c, m) ==
    IF m.intent # NoIntent THEN m.intent ELSE c.current_intent

\* if message.intent: if message.intent.should_handoff(): status = HUMAN_NEEDED
NewStatusReactivating(c, m) ==
    IF m.intent # NoIntent
    THEN IF should_handoff(m.intent) THEN "human_needed" ELSE "active"
    ELSE c.status

NewStatusOnAnyIntent(c, m) ==
    IF m.intent # NoIntent THEN "human_needed" ELSE c.status

NewStatus(c, m) ==
    IF m.intent # NoIntent /\ should_handoff(m.intent)
    THEN "human_needed"
    ELSE c.status

\* Conversation.add_message: the conversation after the call and what it
\* raised
add_message_append_first(c, m) ==
    LET appended == [c EXCEPT !.messages = Append(c.messages, m)] IN
    IF m.conversation_id # c.id
    THEN [conv |-> appended, raised |-> "ValueError"]
    ELSE [conv |-> [appended EXCEPT
                      !.ai_confidence_avg =
                          NewAverage(c.ai_confidence_avg,
                                     Len(appended.messages), m.ai_confidence),
                      !.current_intent = NewCurrentIntent(c, m),
                      !.status = NewStatus(c, m)],
          raised |-> "none"]

add_message(c, m) ==
    IF m.conversation_id # c.id
    THEN [conv |-> c, raised |-> "ValueError"]
    ELSE LET appended == [c EXCEPT !.messages = Append(c.messages, m)] IN
         [conv |-> [appended EXCEPT
                      !.ai_confidence_avg =
                          NewAverage(c.ai_confidence_avg,
                                     Len(appended.messages), m.ai_confidence),
                      !.current_intent = NewCurrentIntent(c, m),
                      !.status = NewStatus(c, m)],
          raised |-> "none"]

\* Conversation.should_handoff() when response_time milliseconds passed
\* since the last message's created_at, without the status test
ConversationShouldHandoffIgnoringStatus(c, response_time) ==
    IF c.current_intent # NoIntent /\ should_handoff(c.current_intent)
    THEN TRUE
    ELSE IF c.ai_confidence_avg.num
              < DEFAULT_HANDOFF_THRESHOLD * c.ai_confidence_avg.den
    THEN TRUE
    ELSE IF c.messages # << >> /\ response_time > MAX_RESPONSE_TIME_SLA
    THEN TRUE
    ELSE FALSE

\* Conversation.should_handoff() when response_time milliseconds passed
\* since the last message's created_at
ConversationShouldHandoff(c, response_time) ==
    IF c.current_intent # NoIntent /\ should_handoff(c.current_intent)
    THEN TRUE
    ELSE IF c.ai_confidence_avg.num
              < DEFAULT_HANDOFF_THRESHOLD * c.ai_confidence_avg.den
    THEN TRUE
    ELSE IF c.status = "human_needed"
    THEN TRUE
    ELSE IF c.messages # << >> /\ response_time > MAX_RESPONSE_TIME_SLA
    THEN TRUE
    ELSE FALSE

\* The last call on the aggregate: what it raised or returned, and for
\* should_handoff the milliseconds since the last message was created.
NoOp ==
    [op |-> "none", raised |-> "none", conversation_id |-> "none",
     returned |-> "none", response_time |-> 0]

\* The messages a caller appends directly (tests/test_conversation.py adds
\* messages without and with an intent).
DirectIntents ==
    { NoIntent,
      MkIntent("greeting", 95, FALSE, EmptyMetadata),
      MkIntent("complaint", 85, FALSE, EmptyMetadata),
      MkIntent("request_human", 90, TRUE, EmptyMetadata),
      MkIntent("question", 95, FALSE,
               [sentiment_score |-> 20, urgent |-> "absent"]),
      MkIntent("question", 65, FALSE, EmptyMetadata) }

DirectMessages ==
    { MkMessage("ext", cid, "text", "inbound", c, NoIntent) :
        cid \in {ConvId, OtherId}, c \in {40, 70, 100} }
    \cup
    { MkMessage("ext", cid, "text", "inbound",
                IF i.type = "request_human" THEN 50 ELSE i.confidence, i) :
        cid \in {ConvId, OtherId}, i \in DirectIntents \ {NoIntent} }

\* conversation.add_message(message), called on the aggregate
AddMessage(m, bound) ==
    /\ Len(conv.messages) < bound
    /\ LET r == add_message(conv, m) IN
         /\ conv' = r.conv
         /\ lastOp' = [NoOp EXCEPT !.op = "add_message",
                                   !.raised = r.raised,
                                   !.conversation_id = m.conversation_id]
    /\ UNCHANGED <<probe, store, req, ctxVars, llm, task>>

\* PATCH /conversations/{id}/status: conversation.status = status
UpdateConversationStatus(s) ==
    /\ conv' = [conv EXCEPT !.status = s]
    /\ lastOp' = [NoOp EXCEPT !.op = "update_conversation_status",
                              !.conversation_id = conv.id]
    /\ UNCHANGED <<probe, store, req, ctxVars, llm, task>>

\* Milliseconds between the last message's created_at and the call
ResponseTimes == {0, 499, 500, 501, 60000}

\* conversation.should_handoff(), called on the aggregate
EvalConversationShouldHandoff(response_time) ==
    /\ lastOp' = [NoOp EXCEPT
                    !.op = "should_handoff",
                    !.conversation_id = conv.id,
                    !.returned =
                        IF ConversationShouldHandoff(conv, response_time)
                        THEN "true" ELSE "false",
                    !.response_time = response_time]
    /\ UNCHANGED <<conv, probe, store, req, ctxVars, llm, task>>

-----------------------------------------------------------------------------
(* services/llm_service.py and api/endpoints/conversation.py: one request  *)
(* POST /conversations/{ConvId}/messages.  The coroutine is suspended at   *)
(* its awaits only, so each action runs from one await to the next.        *)

Req == {"r1", "r2"}

EmptyContext == [present |-> FALSE, messages |-> << >>]

NoMessage == MkMessage("none", "none", "", "none", 0, NoIntent)

IdleRequest ==
    [pc |-> "idle", conversation_id |-> "none", msg |-> NoMessage,
     attempt |-> 0, ctx |-> << >>,
     classifier_output |-> "none",
     intent |-> NoIntent, path |-> "none", gen_calls |-> 0,
     reply |-> NoMessage, error |-> "none", failed_at |-> "none"]

\* The request body: a valid Message whose conversation_id the endpoint
\* does not compare with the path's conversation id.
InboundMessages(r) ==
    { MkMessage(r, cid, "hello", "inbound", 100, NoIntent) :
        cid \in {ConvId, OtherId} }

\* What the provider answers to the classification prompt.
ClassifierReplies ==
    { [kind |-> "json", type |-> "greeting", confidence |-> 95,
       requires_human |-> FALSE],
      [kind |-> "json", type |-> "complaint", confidence |-> 85,
       requires_human |-> FALSE],
      [kind |-> "json", type |-> "request_human", confidence |-> 90,
       requires_human |-> TRUE],
      [kind |-> "json", type |-> "question", confidence |-> 65,
       requires_human |-> FALSE],
      [kind |-> "json", type |-> "question", confidence |-> 70,
       requires_human |-> FALSE],
      [kind |-> "json", type |-> "billing", confidence |-> 95,
       requires_human |-> FALSE],
      [kind |-> "json", type |-> "greeting", confidence |-> 150,
       requires_human |-> FALSE],
      [kind |-> "malformed", type |-> "none", confidence |-> 0,
       requires_human |-> FALSE],
      [kind |-> "api_error", type |-> "none", confidence |-> 0,
       requires_human |-> FALSE] }

\* What the provider answers to the response prompt ("" after strip()).
GeneratorReplies ==
    { [kind |-> "text", text |-> "Happy to help"],
      [kind |-> "text", text |-> ""],
      [kind |-> "api_error", text |-> ""] }

\* Message(**kwargs): pydantic validation of the declared fields; id,
\* conversation_id, content, direction and ai_confidence are required.
MessageRequiredFields ==
    {"id", "conversation_id", "content", "direction", "ai_confidence"}

ValidateMessage(kwargs) ==
    IF /\ MessageRequiredFields \subseteq DOMAIN kwargs
       /\ kwargs.content # ""
       /\ MIN_CONFIDENCE <= kwargs.ai_confidence
       /\ kwargs.ai_confidence <= MAX_CONFIDENCE
    THEN "ok"
    ELSE "ValidationError"

\* The keyword arguments process_message passes to Message(...)
ResponseKwargs(conversation_id, content, intent) ==
    [conversation_id |-> conversation_id, content |-> content,
     direction |-> "outbound", ai_confidence |-> intent.confidence,
     intent |-> intent]

\* classify_intent with a fallback that claims full confidence
ParseClassificationConfidentFallback(reply) ==
    IF reply.kind = "malformed"
    THEN [raised |-> "none",
          intent |-> MkIntent("unknown", 100, FALSE, EmptyMetadata)]
    ELSE IF /\ reply.type \in IntentType
            /\ MIN_CONFIDENCE <= reply.confidence
            /\ reply.confidence <= MAX_CONFIDENCE
         THEN [raised |-> "none",
               intent |-> MkIntent(reply.type, reply.confidence,
                                   reply.requires_human, EmptyMetadata)]
         ELSE [raised |-> "ValidationError", intent |-> NoIntent]

\* classify_intent's parse of the provider's answer: the Intent, or what
\* Intent(...) raises
ParseClassification(reply) ==
    IF reply.kind = "malformed"
    THEN [raised |-> "none",
          intent |-> MkIntent("unknown", 0, TRUE, EmptyMetadata)]
    ELSE IF /\ reply.type \in IntentType
            /\ MIN_CONFIDENCE <= reply.confidence
            /\ reply.confidence <= MAX_CONFIDENCE
         THEN [raised |-> "none",
               intent |-> MkIntent(reply.type, reply.confidence,
                                   reply.requires_human, EmptyMetadata)]
         ELSE [raised |-> "ValidationError", intent |-> NoIntent]

\* if intent.confidence >= 0.7 and not intent.should_handoff()
TakesGeneratePath(intent) ==
    intent.confidence >= GenerateMinConfidence /\ ~should_handoff(intent)

Fail(st, err, at) ==
    [st EXCEPT !.pc = "failed", !.error = err, !.failed_at = at]

\* tenacity that stops after one attempt more
RetryOrFailOneMore(st, at) ==
    IF st.attempt <= MaxAttempts
    THEN [st EXCEPT !.pc = "get_context", !.attempt = st.attempt + 1,
                    !.ctx = << >>, !.intent = NoIntent, !.path = "none",
                    !.classifier_output = "none"]
    ELSE Fail(st, "RetryError", at)

\* tenacity: an APIError starts the next attempt, until the third
RetryOrFail(st, at) ==
    IF st.attempt < MaxAttempts
    THEN [st EXCEPT !.pc = "get_context", !.attempt = st.attempt + 1,
                    !.ctx = << >>, !.intent = NoIntent, !.path = "none",
                    !.classifier_output = "none"]
    ELSE Fail(st, "RetryError", at)

\* process_message from the construction of the response Message to the
\* next await: the request and the cached context afterwards.
RespondPersistingFirst(st, s, content) ==
    LET kwargs == ResponseKwargs(st.conversation_id, content, st.intent) IN
    IF ValidateMessage(kwargs) # "ok"
    THEN [req |-> Fail(st, ValidateMessage(kwargs), "construct"),
          store |-> [present |-> TRUE,
                     messages |-> Append(st.ctx, st.msg)]]
    ELSE [req |-> [st EXCEPT !.pc = "update_context", !.reply = kwargs,
                             !.ctx = st.ctx \o << st.msg, kwargs >>],
          store |-> s]

Respond(st, s, content) ==
    LET kwargs == ResponseKwargs(st.conversation_id, content, st.intent) IN
    IF ValidateMessage(kwargs) # "ok"
    THEN [req |-> Fail(st, ValidateMessage(kwargs), "construct"),
          store |-> s]
    ELSE [req |-> [st EXCEPT !.pc = "update_context", !.reply = kwargs,
                             !.ctx = st.ctx \o << st.msg, kwargs >>],
          store |-> s]

\* _get_conversation: the conversation of that id, if there is one.  The
\* body in the source is a placeholder for the lookup.
get_conversation(conversation_id) ==
    [found |-> conversation_id = conv.id, conversation |-> conv]

\* The endpoint looks the conversation up and calls process_message.
StartRequest(r, m) ==
    /\ req[r].pc = "idle"
    /\ get_conversation(ConvId).found
    /\ req' = [req EXCEPT ![r] = [IdleRequest EXCEPT
                  !.pc = "get_context", !.msg = m, !.attempt = 1,
                  !.conversation_id = get_conversation(ConvId).conversation.id]]
    /\ UNCHANGED <<probe, conv, lastOp, store, ctxVars, llm, task>>

\* await context_service.get_conversation_context(conversation.id)
GetContext(r, ok) ==
    /\ req[r].pc = "get_context"
    /\ req' = [req EXCEPT ![r] =
                 IF ok
                 THEN [@ EXCEPT !.pc = "classify",
                                !.ctx = IF store.present
                                        THEN store.messages ELSE << >>]
                 ELSE Fail(@, "RedisError", "get_context")]
    /\ UNCHANGED <<probe, conv, lastOp, store, ctxVars, llm, task>>

\* await classify_intent(...), message.intent = intent, the decision and,
\* on the handoff path, the response
ClassifyIntent(r, reply) ==
    /\ req[r].pc = "classify"
    /\ LET st == [req[r] EXCEPT !.classifier_output = reply.kind]
           p  == ParseClassification(reply)
           classified == [st EXCEPT !.intent = p.intent,
                                    !.msg.intent = p.intent]
       IN
       IF reply.kind = "api_error"
       THEN /\ req' = [req EXCEPT ![r] = RetryOrFail(st, "classify")]
            /\ UNCHANGED store
       ELSE IF p.raised # "none"
       THEN /\ req' = [req EXCEPT ![r] = Fail(st, p.raised, "classify")]
            /\ UNCHANGED store
       ELSE IF TakesGeneratePath(p.intent)
       THEN /\ req' = [req EXCEPT ![r] =
                         [classified EXCEPT !.pc = "generate",
                                            !.path = "generate"]]
            /\ UNCHANGED store
       ELSE LET out == Respond([classified EXCEPT !.path = "handoff"],
                               store, HandoffPlaceholder)
            IN /\ req' = [req EXCEPT ![r] = out.req]
               /\ store' = out.store
    /\ UNCHANGED <<probe, conv, lastOp, ctxVars, llm, task>>

\* generate_response after the inbound message was put into the cached
\* context
GenerateResponsePersistingFirst(r, reply) ==
    /\ req[r].pc = "generate"
    /\ LET st == [req[r] EXCEPT !.gen_calls = @ + 1]
           s  == [present |-> TRUE, messages |-> Append(st.ctx, st.msg)] IN
       IF reply.kind = "api_error"
       THEN /\ req' = [req EXCEPT ![r] = RetryOrFail(st, "generate")]
            /\ store' = s
       ELSE IF reply.text = ""
       THEN /\ req' = [req EXCEPT ![r] = Fail(st, "ValueError", "generate")]
            /\ store' = s
       ELSE LET out == Respond(st, s, reply.text)
            IN /\ req' = [req EXCEPT ![r] = out.req]
               /\ store' = out.store
    /\ UNCHANGED <<probe, conv, lastOp, ctxVars, llm, task>>

\* await generate_response(...) and the response
GenerateResponse(r, reply) ==
    /\ req[r].pc = "generate"
    /\ LET st == [req[r] EXCEPT !.gen_calls = @ + 1] IN
       IF reply.kind = "api_error"
       THEN /\ req' = [req EXCEPT ![r] = RetryOrFail(st, "generate")]
            /\ UNCHANGED store
       ELSE IF reply.text = ""
       THEN /\ req' = [req EXCEPT ![r] = Fail(st, "ValueError", "generate")]
            /\ UNCHANGED store
       ELSE LET out == Respond(st, store, reply.text)
            IN /\ req' = [req EXCEPT ![r] = out.req]
               /\ store' = out.store
    /\ UNCHANGED <<probe, conv, lastOp, ctxVars, llm, task>>

\* The request is cancelled (client disconnect, timeout) while suspended.
Cancel(r) ==
    /\ req[r].pc \in {"get_context", "classify", "generate"}
    /\ req' = [req EXCEPT ![r] = Fail(@, "CancelledError", @.pc)]
    /\ UNCHANGED <<probe, conv, lastOp, store, ctxVars, llm, task>>

-----------------------------------------------------------------------------
(* services/context_service.py: ContextService over the cache backend.     *)
(* One key, context:1.0:c1.  A cached string is a sequence of characters;  *)
(* the members of a JSON object travel as one character that carries the   *)
(* dict, and a deflated byte is the character with z set.                  *)

compression_threshold == 1024
CircuitThreshold == 3
reset_timeout == 30
ContextWindow == 10
CompressionRatioPct == 90
PrefixSliceIndex == 10
SecondsPerDay == 86400
ContextVersion == "1.0"
LeadId == "lead1"

NoCurrentIntent == [type |-> "absent", confidence |-> Absent]

\* {} as a metadata dict
EmptyDict ==
    [lead_id |-> "absent", status |-> "absent",
     ai_confidence_avg |-> [num |-> 0, den |-> 1], message_count |-> Absent]

\* A context dict; a key the dict lacks holds Absent / "absent".
NoContext ==
    [messages |-> << >>, metadata |-> EmptyDict, created_at |-> Absent,
     updated_at |-> Absent, version |-> "absent",
     current_intent |-> NoCurrentIntent]

\* Message(..., created_at=datetime.utcnow()) built at time t
WithCreatedAt(m, t) ==
    [id |-> m.id, conversation_id |-> m.conversation_id,
     content |-> m.content, direction |-> m.direction,
     ai_confidence |-> m.ai_confidence, intent |-> m.intent,
     created_at |-> t]

\* one entry of context['messages']
MessageSummary(msg) ==
    [content |-> msg.content, direction |-> msg.direction,
     created_at |-> msg.created_at, ai_confidence |-> msg.ai_confidence]

\* conversation.messages[-k:]
LastK(msgs, k) ==
    IF Len(msgs) <= k THEN msgs
    ELSE SubSeq(msgs, Len(msgs) - k + 1, Len(msgs))

\* build_context with conversation.messages[:10], the window taken from
\* the wrong end
build_context_oldest_first(conversation, t) ==
    LET window == IF Len(conversation.messages) <= ContextWindow
                  THEN conversation.messages
                  ELSE SubSeq(conversation.messages, 1, ContextWindow) IN
    [conversation |-> conversation,
     context |->
        [messages |-> [i \in 1..Len(window) |-> MessageSummary(window[i])],
         metadata |-> [lead_id |-> LeadId, status |-> conversation.status,
                       ai_confidence_avg |-> conversation.ai_confidence_avg,
                       message_count |-> Len(conversation.messages)],
         created_at |-> t, updated_at |-> Absent, version |-> "absent",
         current_intent |->
            IF conversation.current_intent # NoIntent
            THEN [type |-> conversation.current_intent.type,
                  confidence |-> conversation.current_intent.confidence]
            ELSE NoCurrentIntent]]

\* build_context over conversation.messages, without the window
build_context_unbounded(conversation, t) ==
    [conversation |-> conversation,
     context |->
        [messages |-> [i \in 1..Len(conversation.messages) |->
                          MessageSummary(conversation.messages[i])],
         metadata |-> [lead_id |-> LeadId, status |-> conversation.status,
                       ai_confidence_avg |-> conversation.ai_confidence_avg,
                       message_count |-> Len(conversation.messages)],
         created_at |-> t, updated_at |-> Absent, version |-> "absent",
         current_intent |->
            IF conversation.current_intent # NoIntent
            THEN [type |-> conversation.current_intent.type,
                  confidence |-> conversation.current_intent.confidence]
            ELSE NoCurrentIntent]]

\* build_context(conversation) at time t: the conversation as the call
\* leaves it, and the dict returned.
build_context(conversation, t) ==
    LET window == LastK(conversation.messages, ContextWindow) IN
    [conversation |-> conversation,
     context |->
        [messages |-> [i \in 1..Len(window) |-> MessageSummary(window[i])],
         metadata |-> [lead_id |-> LeadId, status |-> conversation.status,
                       ai_confidence_avg |-> conversation.ai_confidence_avg,
                       message_count |-> Len(conversation.messages)],
         created_at |-> t, updated_at |-> Absent, version |-> "absent",
         current_intent |->
            IF conversation.current_intent # NoIntent
            THEN [type |-> conversation.current_intent.type,
                  confidence |-> conversation.current_intent.confidence]
            ELSE NoCurrentIntent]]

\* Characters and bytes
Tok(ch) == [ch |-> ch, doc |-> NoContext, z |-> FALSE]

\* json.dumps(context) and its inverse json.loads(text)
json_dumps(context) ==
    << Tok("{"), [ch |-> "members", doc |-> context, z |-> FALSE], Tok("}") >>

json_loads(text) ==
    IF /\ Len(text) = 3
       /\ text[1] = Tok("{")
       /\ text[2].ch = "members" /\ ~text[2].z
       /\ text[3] = Tok("}")
    THEN [raised |-> "none", value |-> text[2].doc]
    ELSE [raised |-> "JSONDecodeError", value |-> NoContext]

\* len(json.dumps(context)) for the dicts build_context returns, measured:
\* 253 characters without messages, 107 per message plus its content.
JsonBaseSize == 253
JsonMessageSize == 107

ContentLen(content) ==
    CASE content = "hello" -> 5
      [] content = "text" -> 4
      [] content = "Happy to help" -> 13
      [] content = HandoffPlaceholder -> 36
      [] OTHER -> 0

RECURSIVE SumContentLen(_)
SumContentLen(msgs) ==
    IF msgs = << >> THEN 0
    ELSE ContentLen(Head(msgs).content) + SumContentLen(Tail(msgs))

JsonSize(context) ==
    JsonBaseSize + JsonMessageSize * Len(context.messages)
                 + SumContentLen(context.messages)

\* len(zlib.compress(...)) of the same texts, measured: 171 bytes without
\* messages, about 5 more for each (repetitive) message.
ZlibBaseSize == 171
ZlibMessageSize == 5

ZlibSize(context) == ZlibBaseSize + ZlibMessageSize * Len(context.messages)

\* zlib.compress(data): the two header bytes 0x78 0x9C, then the deflated
\* input
ZlibHeader == << Tok("x78"), Tok("x9C") >>

zlib_compress(data) ==
    ZlibHeader \o [i \in 1..Len(data) |-> [data[i] EXCEPT !.z = TRUE]]

\* zlib.decompress(data)
zlib_decompress(data) ==
    IF /\ Len(data) > 2
       /\ SubSeq(data, 1, 2) = ZlibHeader
       /\ \A i \in 3..Len(data) : data[i].z
    THEN [raised |-> "none",
          value |-> [i \in 1..(Len(data) - 2) |->
                        [data[i + 2] EXCEPT !.z = FALSE]]]
    ELSE [raised |-> "zlib.error", value |-> << >>]

\* bytes.decode(): UTF-8 has no character that starts with byte 0x9C
utf8_decode(data) ==
    IF \E i \in 1..Len(data) : data[i].ch = "x9C"
    THEN [raised |-> "UnicodeDecodeError", value |-> << >>]
    ELSE [raised |-> "none", value |-> data]

\* str.encode(): every character has a UTF-8 encoding
utf8_encode(text) == text

\* 'compressed:'
CompressedPrefix ==
    << Tok("c"), Tok("o"), Tok("m"), Tok("p"), Tok("r"), Tok("e"),
       Tok("s"), Tok("s"), Tok("e"), Tok("d"), Tok(":") >>

\* s.startswith(p) and s[k:]
startswith(s, p) == Len(s) >= Len(p) /\ SubSeq(s, 1, Len(p)) = p
SliceFrom(s, k) == SubSeq(s, k + 1, Len(s))

\* The cache backend's key: whether it exists and its string; while the
\* string is the one a put wrote, the dict passed to that put and the time
\* of the put.
NoKey ==
    [exists |-> FALSE, value |-> << >>, origin |-> NoContext,
     written_at |-> Absent]

NewCircuitBreaker == [failures |-> 0, last_failure |-> Absent]

\* (datetime.utcnow() - last_failure).seconds
ElapsedSeconds(cb, t) == (t - cb.last_failure) % SecondsPerDay

\* _is_circuit_open() at time t: the answer and the breaker it leaves
_is_circuit_open(cb, t) ==
    IF cb.failures >= CircuitThreshold /\ cb.last_failure # Absent
    THEN IF ElapsedSeconds(cb, t) < reset_timeout
         THEN [open |-> TRUE, circuit_breaker |-> cb]
         ELSE [open |-> FALSE, circuit_breaker |-> NewCircuitBreaker]
    ELSE [open |-> FALSE, circuit_breaker |-> cb]

\* _record_failure() at time t
_record_failure(cb, t) ==
    [failures |-> cb.failures + 1, last_failure |-> t]

\* if not raw_data: None, and the empty string as well
CacheMissOnEmptyStringOnly(rd) == rd.exists /\ rd.value = << >>

CacheMiss(rd) == ~rd.exists \/ rd.value = << >>

\* the dict returned on a miss
EmptyContextAt(t) == [NoContext EXCEPT !.created_at = t]

\* get_conversation_context, lines 128-138: the stored string to a dict
ParseStored(raw_data) ==
    LET context_data ==
            IF startswith(raw_data, CompressedPrefix)
            THEN zlib_decompress(
                     utf8_encode(SliceFrom(raw_data, PrefixSliceIndex)))
            ELSE [raised |-> "none", value |-> raw_data]
        context ==
            IF context_data.raised = "none"
            THEN json_loads(context_data.value)
            ELSE [raised |-> context_data.raised, value |-> NoContext]
    IN  IF context.raised \in {"JSONDecodeError", "zlib.error"}
        THEN [raised |-> "ValueError", value |-> NoContext]
        ELSE context

\* The outcome of one ContextService call: what it raised or returned,
\* whether the backend was called, and the key and breaker it leaves.
Outcome(raised, context, success, contacted, rd, cb) ==
    [raised |-> raised, context |-> context, success |-> success,
     contacted |-> contacted, redis |-> rd, circuit_breaker |-> cb]

\* await get_conversation_context(conversation_id) at time t
get_conversation_context(rd, cb, t, backend_ok) ==
    LET circuit == _is_circuit_open(cb, t) IN
    IF circuit.open
    THEN Outcome("RedisError", NoContext, "none", FALSE, rd,
                 _record_failure(circuit.circuit_breaker, t))
    ELSE IF ~backend_ok
    THEN Outcome("RedisError", NoContext, "none", TRUE, rd,
                 _record_failure(circuit.circuit_breaker, t))
    ELSE IF CacheMiss(rd)
    THEN Outcome("none", EmptyContextAt(t), "none", TRUE, rd,
                 circuit.circuit_breaker)
    ELSE LET context == ParseStored(rd.value) IN
         Outcome(context.raised, context.value, "none", TRUE, rd,
                 circuit.circuit_breaker)

\* context['updated_at'] = now; context['version'] = self.version
StampContextWithoutVersion(context, t) ==
    [context EXCEPT !.updated_at = t]

StampContext(context, t) ==
    [context EXCEPT !.updated_at = t, !.version = ContextVersion]

\* await update_context(conversation_id, context) at time t
update_context(rd, cb, t, context, backend_ok) ==
    LET stamped == StampContext(context, t)
        context_data == json_dumps(stamped)
        data_size == JsonSize(stamped)
        compresses ==
            /\ data_size > compression_threshold
            /\ ZlibSize(stamped) * 100 < CompressionRatioPct * data_size
        text == IF compresses
                THEN utf8_decode(zlib_compress(utf8_encode(context_data)))
                ELSE [raised |-> "none", value |-> context_data]
    IN  IF text.raised # "none"
        THEN Outcome(text.raised, stamped, "none", FALSE, rd, cb)
        ELSE IF ~backend_ok
        THEN Outcome("RedisError", stamped, "none", TRUE, rd,
                     _record_failure(cb, t))
        ELSE Outcome("none", stamped, "true", TRUE,
                     [exists |-> TRUE,
                      value |-> IF compresses
                                THEN CompressedPrefix \o text.value
                                ELSE text.value,
                      origin |-> context, written_at |-> t],
                     cb)

\* await clear_context(conversation_id) at time t: bool(redis.delete(key)),
\* where delete answers the number of keys it removed
clear_context(rd, cb, t, backend_ok) ==
    IF ~backend_ok
    THEN Outcome("RedisError", NoContext, "none", TRUE, rd,
                 _record_failure(cb, t))
    ELSE Outcome("none", NoContext,
                 IF rd.exists THEN "true" ELSE "false", TRUE, NoKey, cb)

\* The last ContextService call: its outcome, the key and the breaker as
\* the call found and left them, whether it found the circuit open, the
\* time of the last call so far that the backend failed, and how many
\* calls the backend failed since it last served one (counted up to the
\* threshold).
NoCall ==
    [op |-> "none", raised |-> "none", context |-> NoContext,
     success |-> "none", contacted |-> FALSE, at |-> Absent,
     arg |-> NoContext, before |-> NoKey, after |-> NoKey,
     open_before |-> FALSE,
     breaker_before |-> NewCircuitBreaker,
     breaker_after |-> NewCircuitBreaker,
     last_backend_failure |-> Absent,
     failures_in_a_row |-> 0]

Called(op, arg, r) ==
    [op |-> op, raised |-> r.raised, context |-> r.context,
     success |-> r.success, contacted |-> r.contacted, at |-> now,
     arg |-> arg, before |-> redis, after |-> r.redis,
     open_before |-> _is_circuit_open(circuit_breaker, now).open,
     breaker_before |-> circuit_breaker,
     breaker_after |-> r.circuit_breaker,
     last_backend_failure |->
        IF r.contacted /\ r.raised = "RedisError"
        THEN now ELSE call.last_backend_failure,
     failures_in_a_row |->
        IF r.contacted /\ r.raised = "RedisError"
        THEN IF call.failures_in_a_row < CircuitThreshold
             THEN call.failures_in_a_row + 1 ELSE CircuitThreshold
        ELSE IF r.contacted /\ r.raised = "none" THEN 0
        ELSE call.failures_in_a_row]

\* Conversations as add_message leaves them, for the dicts callers put
RECURSIVE Replay(_, _)
Replay(c, msgs) ==
    IF msgs = << >> THEN c
    ELSE Replay(add_message(c, Head(msgs)).conv, Tail(msgs))

SampleMessages(n) ==
    [i \in 1..n |->
        WithCreatedAt(
            IF i % 2 = 1
            THEN MkMessage("ext", ConvId, "hello", "inbound", 100, NoIntent)
            ELSE MkMessage("ext", ConvId, "Happy to help", "outbound", 95,
                           NoIntent),
            0)]

SampleLengths == {0, 2, 8}

\* What _update_conversation puts: build_context(conversation)
PutContexts ==
    { build_context(Replay(NewConversation, SampleMessages(n)), 0).context :
        n \in SampleLengths }

\* Strings no put wrote: the empty string, a truncated JSON text, bytes
\* that are no JSON, and a 'compressed:' string with a damaged body.
CorruptValues ==
    { << >>,
      SubSeq(json_dumps(NoContext), 1, 2),
      << Tok("?") >>,
      CompressedPrefix \o << Tok("?") >> }

TimeSteps == {10, 30}

MaxTime == 40
MaxFailures == 5

\* The service's state after a call, failures counted up to MaxFailures
Apply(op, arg, r) ==
    /\ r.circuit_breaker.failures <= MaxFailures
    /\ redis' = r.redis
    /\ circuit_breaker' = r.circuit_breaker
    /\ call' = Called(op, arg, r)
    /\ UNCHANGED <<now, probe, conv, lastOp, store, req, llm, task>>

Get(backend_ok) ==
    Apply("get", NoContext,
          get_conversation_context(redis, circuit_breaker, now, backend_ok))

Put(context, backend_ok) ==
    Apply("put", context,
          update_context(redis, circuit_breaker, now, context, backend_ok))

Clear(backend_ok) ==
    Apply("clear", NoContext,
          clear_context(redis, circuit_breaker, now, backend_ok))

\* Time passes.
Tick(d) ==
    /\ now + d <= MaxTime
    /\ now' = now + d
    /\ UNCHANGED <<redis, circuit_breaker, call, probe, conv, lastOp, store,
                   req, llm, task>>

\* The key's TTL (setex) runs out.
Expire ==
    /\ redis.exists
    /\ redis' = NoKey
    /\ UNCHANGED <<circuit_breaker, now, call, probe, conv, lastOp, store,
                   req, llm, task>>

\* The backend's value is damaged or overwritten by another writer.
CorruptValue(v) ==
    /\ redis' = [exists |-> TRUE, value |-> v, origin |-> NoContext,
                 written_at |-> Absent]
    /\ UNCHANGED <<circuit_breaker, now, call, probe, conv, lastOp, store,
                   req, llm, task>>

\* context_service.build_context(conversation)
BuildContext ==
    LET r == build_context(conv, now) IN
    /\ conv' = r.conversation
    /\ call' = [NoCall EXCEPT !.op = "build_context",
                              !.context = r.context, !.at = now]
    /\ UNCHANGED <<redis, circuit_breaker, now, probe, lastOp, store, req, llm, task>>

\* A caller creates the next Message and appends it; created_at counts the
\* messages created before it.
BuildMessages ==
    { MkMessage("ext", ConvId, "hello", "inbound", 100, NoIntent),
      MkMessage("ext", ConvId, "Happy to help", "outbound", 95, NoIntent) }

AppendCreated(m, bound) ==
    AddMessage(WithCreatedAt(m, Len(conv.messages)), bound)

-----------------------------------------------------------------------------
(* api/endpoints/conversation.py: _update_conversation, the background     *)
(* task process_message schedules once it has the response.  No other      *)
(* coroutine of the conversation runs while the task does.                 *)

\* except Exception that catches the ValueError only
SwallowValueErrorOnly(r) ==
    IF r.raised = "ValueError"
    THEN [r EXCEPT !.raised = "none", !.logged = r.raised]
    ELSE r

\* except Exception as e: count it, print it, do not raise
SwallowException(r) ==
    [r EXCEPT !.raised = "none", !.logged = r.raised]

NoOutcome == Outcome("none", NoContext, "none", FALSE, NoKey, NewCircuitBreaker)

\* _update_conversation that builds the context before it appends the
\* response
_update_conversation_before_response(c, rd, cb, t, message, response, intent, backend_ok) ==
    LET first   == add_message(c, message)
        built   == build_context(first.conv, t)
        second  == add_message(first.conv, response)
        updated == IF should_handoff(intent)
                   THEN [second.conv EXCEPT !.status = "human_needed"]
                   ELSE second.conv
        put     == update_context(rd, cb, t, built.context, backend_ok)
        Body(conversation, r, b, raised, reached, o) ==
            [conversation |-> conversation, redis |-> r,
             circuit_breaker |-> b, raised |-> raised, logged |-> "none",
             put_called |-> reached, put |-> o]
    IN  SwallowException(
            IF first.raised # "none"
            THEN Body(first.conv, rd, cb, first.raised, FALSE, NoOutcome)
            ELSE IF second.raised # "none"
            THEN Body(second.conv, rd, cb, second.raised, FALSE, NoOutcome)
            ELSE Body(updated, put.redis, put.circuit_breaker,
                      put.raised, TRUE, put))

\* _update_conversation(conversation, message, response, intent) at time
\* t: the conversation, key and breaker it leaves, what it raises to the
\* task runner, what it logged, and the update_context call it made
_update_conversation(c, rd, cb, t, message, response, intent, backend_ok) ==
    LET first   == add_message(c, message)
        second  == add_message(first.conv, response)
        updated == IF should_handoff(intent)
                   THEN [second.conv EXCEPT !.status = "human_needed"]
                   ELSE second.conv
        built   == build_context(updated, t)
        put     == update_context(rd, cb, t, built.context, backend_ok)
        Body(conversation, r, b, raised, reached, o) ==
            [conversation |-> conversation, redis |-> r,
             circuit_breaker |-> b, raised |-> raised, logged |-> "none",
             put_called |-> reached, put |-> o]
    IN  SwallowException(
            IF first.raised # "none"
            THEN Body(first.conv, rd, cb, first.raised, FALSE, NoOutcome)
            ELSE IF second.raised # "none"
            THEN Body(second.conv, rd, cb, second.raised, FALSE, NoOutcome)
            ELSE Body(built.conversation, put.redis, put.circuit_breaker,
                      put.raised, TRUE, put))

\* The last task: what left it as an exception, what it logged, and the
\* response the endpoint had returned before it ran.
NoTask ==
    [op |-> "none", raised |-> "none", logged |-> "none",
     message |-> NoMessage, response |-> NoMessage, put_called |-> FALSE]

\* The intents process_message hands to the task with its response
TaskIntents ==
    { MkIntent("greeting", 95, FALSE, EmptyMetadata),
      MkIntent("request_human", 90, TRUE, EmptyMetadata) }

\* message.intent = intent; the message is the request body
TaskMessage(cid, intent) ==
    WithCreatedAt(MkMessage("ext", cid, "hello", "inbound", 100, intent),
                  Len(conv.messages))

\* the response Message of process_message, for conversation.id
TaskResponse(intent) ==
    WithCreatedAt(
        MkMessage("resp", conv.id,
                  IF should_handoff(intent) THEN HandoffPlaceholder
                  ELSE "Happy to help",
                  "outbound", intent.confidence, intent),
        Len(conv.messages) + 1)

\* The task runner runs _update_conversation(conversation, message,
\* response, intent).
UpdateConversation(cid, intent, backend_ok, bound) ==
    LET message  == TaskMessage(cid, intent)
        response == TaskResponse(intent)
        r == _update_conversation(conv, redis, circuit_breaker, now,
                                  message, response, intent, backend_ok)
    IN  /\ Len(conv.messages) + 2 <= bound
        /\ r.circuit_breaker.failures <= MaxFailures
        /\ conv' = r.conversation
        /\ redis' = r.redis
        /\ circuit_breaker' = r.circuit_breaker
        /\ call' = IF r.put_called
                   THEN Called("put", build_context(r.conversation, now).context,
                               r.put)
                   ELSE call
        /\ task' = [op |-> "update_conversation", raised |-> r.raised,
                    logged |-> r.logged, message |-> message,
                    response |-> response, put_called |-> r.put_called]
        /\ UNCHANGED <<now, probe, lastOp, store, req, llm>>

-----------------------------------------------------------------------------
(* services/llm_service.py: the limiter of the model calls.  The calls of  *)
(* all process_message coroutines of one LLMService are counted by where   *)
(* they stand: waiting at `async with self.processing_semaphore` or inside *)
(* it, awaiting the provider.                                              *)

ProcessingLimit == 5
QueueMaxSize == 100

\* Semaphore(5) and Queue(maxsize=100); nothing is ever put in the queue,
\* process_message only reads its qsize()
NewLimiter ==
    [sem |-> ProcessingLimit, request_queue |-> 0,
     waiting |-> [classify |-> 0, generate |-> 0],
     in_flight |-> [classify |-> 0, generate |-> 0]]

ModelCalls == {"classify", "generate"}

Waiters(l) == l.waiting.classify + l.waiting.generate
InFlight(l) == l.in_flight.classify + l.in_flight.generate

\* acquire() that takes a permit whatever the semaphore's value
AcquireUngated(l, kind) ==
    { [l EXCEPT !.sem = @ - 1, !.in_flight[kind] = @ + 1] }

\* `async with self.processing_semaphore` entered for a call of that kind:
\* acquire() takes a permit when one is free, and waits when none is; with
\* a permit free and earlier callers still waiting, the interpreter's
\* version decides (3.11 and later queue the newcomer).
Acquire(l, kind) ==
    (IF l.sem > 0
     THEN { [l EXCEPT !.sem = @ - 1, !.in_flight[kind] = @ + 1] }
     ELSE { })
    \cup
    (IF l.sem = 0 \/ Waiters(l) > 0
     THEN { [l EXCEPT !.waiting[kind] = @ + 1] }
     ELSE { })

\* a block left without release()
ReleaseLeaking(l, kind) ==
    [l EXCEPT !.in_flight[kind] = @ - 1]

\* the block is left, by return or by exception: release()
Release(l, kind) ==
    [l EXCEPT !.sem = @ + 1, !.in_flight[kind] = @ - 1]

MaxWaiting == 101

\* process_message reaches classify_intent.
EnterClassify ==
    /\ Waiters(llm) < MaxWaiting
    /\ llm' \in Acquire(llm, "classify")
    /\ UNCHANGED <<probe, conv, lastOp, store, req, ctxVars, task>>

\* A waiting acquire() is woken and takes the permit that was released.
Wake(kind) ==
    /\ llm.waiting[kind] > 0
    /\ llm.sem > 0
    /\ llm' = [llm EXCEPT !.waiting[kind] = @ - 1, !.sem = @ - 1,
                          !.in_flight[kind] = @ + 1]
    /\ UNCHANGED <<probe, conv, lastOp, store, req, ctxVars, task>>

\* The provider answers the classification (or fails); the coroutine then
\* goes on to generate_response, or ends the attempt.
LeaveClassify(generates) ==
    /\ llm.in_flight.classify > 0
    /\ generates => Waiters(llm) < MaxWaiting
    /\ llm' \in IF generates
                THEN Acquire(Release(llm, "classify"), "generate")
                ELSE { Release(llm, "classify") }
    /\ UNCHANGED <<probe, conv, lastOp, store, req, ctxVars, task>>

\* The provider answers the generation (or fails).
LeaveGenerate ==
    /\ llm.in_flight.generate > 0
    /\ llm' = Release(llm, "generate")
    /\ UNCHANGED <<probe, conv, lastOp, store, req, ctxVars, task>>

\* A coroutine waiting for a permit is cancelled.
CancelWaiting(kind) ==
    /\ llm.waiting[kind] > 0
    /\ llm' = [llm EXCEPT !.waiting[kind] = @ - 1]
    /\ UNCHANGED <<probe, conv, lastOp, store, req, ctxVars, task>>

-----------------------------------------------------------------------------
(* Specifications                                                          *)

MaxMessages == 4
MaxStickyMessages == 1

Init ==
    /\ probe = NoProbe
    /\ conv = NewConversation
    /\ lastOp = NoOp
    /\ store = EmptyContext
    /\ req = [r \in Req |-> IdleRequest]
    /\ redis = NoKey
    /\ circuit_breaker = NewCircuitBreaker
    /\ now = 0
    /\ call = NoCall
    /\ llm = NewLimiter
    /\ task = NoTask

\* Both should_handoff methods on every intent and threshold.
InitIntent ==
    /\ probe \in { Unevaluated(i, t) : i \in ProbeIntents, t \in ProbeThresholds }
    /\ conv = NewConversation
    /\ lastOp = NoOp
    /\ store = EmptyContext
    /\ req = [r \in Req |-> IdleRequest]
    /\ redis = NoKey
    /\ circuit_breaker = NewCircuitBreaker
    /\ now = 0
    /\ call = NoCall
    /\ llm = NewLimiter
    /\ task = NoTask

NextIntent ==
    \/ EvalShouldHandoff
    \/ \E injected \in BOOLEAN : ClassifyMessageIntent(injected)

SpecIntent == InitIntent /\ [][NextIntent]_vars

\* The Conversation aggregate under direct calls.
NextConv ==
    \/ \E m \in DirectMessages : AddMessage(m, MaxMessages)
    \/ \E s \in ConversationStatus : UpdateConversationStatus(s)

SpecConv == Init /\ [][NextConv]_vars

\* Concurrent requests for the conversation.
RequestStep(r) ==
    \/ \E m \in InboundMessages(r) : StartRequest(r, m)
    \/ \E ok \in BOOLEAN : GetContext(r, ok)
    \/ \E reply \in ClassifierReplies : ClassifyIntent(r, reply)
    \/ \E reply \in GeneratorReplies : GenerateResponse(r, reply)
    \/ Cancel(r)

Next == \E r \in Req : RequestStep(r)

Spec == Init /\ [][Next]_vars

\* Direct calls on the aggregate, status updates and one request.
NextSticky ==
    \/ \E m \in DirectMessages : AddMessage(m, MaxStickyMessages)
    \/ \E s \in ConversationStatus : UpdateConversationStatus(s)
    \/ RequestStep("r1")

SpecSticky == Init /\ [][NextSticky]_vars

MaxBuildMessages == 11

\* The ContextService under direct calls, backend failures, time, expiry
\* and damaged values.
NextStore ==
    \/ \E ok \in BOOLEAN : Get(ok)
    \/ \E c \in PutContexts, ok \in BOOLEAN : Put(c, ok)
    \/ \E ok \in BOOLEAN : Clear(ok)
    \/ \E d \in TimeSteps : Tick(d)
    \/ Expire
    \/ \E v \in CorruptValues : CorruptValue(v)

SpecStore == Init /\ [][NextStore]_vars

\* build_context on conversations longer than the window.
NextBuild ==
    \/ \E m \in BuildMessages : AppendCreated(m, MaxBuildMessages)
    \/ BuildContext

SpecBuild == Init /\ [][NextBuild]_vars

MaxHandoffMessages == 2

\* Conversation.should_handoff on the aggregates add_message and the status
\* update produce.
NextHandoff ==
    \/ \E m \in DirectMessages : AddMessage(m, MaxHandoffMessages)
    \/ \E s \in ConversationStatus : UpdateConversationStatus(s)
    \/ \E t \in ResponseTimes : EvalConversationShouldHandoff(t)

SpecHandoff == Init /\ [][NextHandoff]_vars

MaxTaskMessages == 12

\* The background tasks of successive requests for the conversation.
NextTask ==
    \E cid \in {ConvId, OtherId}, intent \in TaskIntents, ok \in BOOLEAN :
        UpdateConversation(cid, intent, ok, MaxTaskMessages)

SpecTask == Init /\ [][NextTask]_vars

\* The model calls of any number of concurrent process_message calls.
NextLimiter ==
    \/ EnterClassify
    \/ \E kind \in ModelCalls : Wake(kind)
    \/ \E generates \in BOOLEAN : LeaveClassify(generates)
    \/ LeaveGenerate
    \/ \E kind \in ModelCalls : CancelWaiting(kind)

SpecLimiter == Init /\ [][NextLimiter]_vars

\* The same when every call in flight returns (the provider answers or
\* the request times out) and a waiter that can take a permit again and
\* again eventually takes one.
FairLimiter ==
    /\ WF_vars(\E generates \in BOOLEAN : LeaveClassify(generates))
    /\ WF_vars(LeaveGenerate)
    /\ SF_vars(\E kind \in ModelCalls : Wake(kind))

SpecLimiterFair == SpecLimiter /\ FairLimiter

-----------------------------------------------------------------------------
(* Properties                                                              *)

Finished(r) == req[r].pc \in {"failed", "returned"}

\* The request decided between reply and handoff and every provider call
\* it made came back with a usable answer.
Answered(r) ==
    /\ req[r].path # "none"
    /\ req[r].pc # "generate"
    /\ req[r].failed_at \in {"none", "construct"}

\* C1: process_message generates (one generator call, the reply is the
\* generator's text) exactly when intent.confidence >= 0.7 and the intent
\* does not hand off; otherwise it returns the placeholder and calls no
\* generator.
C1_DecisionRuleReturnsReply ==
    \A r \in Req :
        Answered(r) =>
            /\ req[r].pc = "returned"
            /\ IF req[r].intent.confidence >= 70 /\ ~should_handoff(req[r].intent)
               THEN /\ req[r].path = "generate"
                    /\ req[r].gen_calls = 1
                    /\ req[r].reply.content \notin {"", HandoffPlaceholder}
               ELSE /\ req[r].path = "handoff"
                    /\ req[r].gen_calls = 0
                    /\ req[r].reply.content = HandoffPlaceholder

\* The rule the specification gives for intent-level handoff.
SixConditionRule(i, threshold) ==
    \/ i.requires_human
    \/ i.confidence < threshold
    \/ i.type = "request_human"
    \/ (i.type = "complaint" /\ i.confidence < 90)
    \/ (i.metadata.sentiment_score # Absent /\ i.metadata.sentiment_score < 30)
    \/ i.metadata.urgent = "true"

\* C2: should_handoff(intent, threshold) is true exactly when one of the
\* six conditions holds (requires_human, confidence < threshold,
\* request_human, complaint below 0.9, sentiment_score < 0.3, urgent).
C2_HandoffIsSixConditionRule ==
    (probe.evaluated /\ probe.threshold \in 0..100) =>
        (probe.intent_module = "true"
            <=> SixConditionRule(probe.intent, probe.threshold))

\* C3: at the default threshold 0.7 the should_handoff of models/intent.py
\* and the should_handoff of models/conversation.py agree on every intent.
C3_HandoffPredicatesAgree ==
    (probe.evaluated /\ probe.threshold = 70) =>
        probe.intent_module = probe.conversation_module

RECURSIVE SumConfidence(_)
SumConfidence(msgs) ==
    IF msgs = << >> THEN 0
    ELSE msgs[1].ai_confidence + SumConfidence(Tail(msgs))

\* C4: once n >= 1 messages were appended, ai_confidence_avg is the mean
\* of their confidences (avg_num / avg_den = sum / n); the default 1.0
\* does not contribute.
C4_AverageIsMean ==
    Len(conv.messages) >= 1 =>
        conv.ai_confidence_avg.num * Len(conv.messages)
            = SumConfidence(conv.messages) * conv.ai_confidence_avg.den

C4_Witness ==
    /\ Len(conv.messages) = 4
    /\ conv.messages[1].ai_confidence = 40
    /\ conv.messages[2].ai_confidence = 100
    /\ conv.messages[3].ai_confidence = 65
    /\ conv.messages[4].ai_confidence = 100
    /\ conv.ai_confidence_avg = [num |-> 305, den |-> 4]

\* C5: add_message with a message of another conversation raises and
\* leaves the conversation (messages, average, current intent, status) as
\* it was; a message of this conversation does not raise.
C5_MismatchRaisesAndMutatesNothing ==
    [][ lastOp'.op = "add_message" =>
          IF lastOp'.conversation_id # conv.id
          THEN lastOp'.raised = "ValueError" /\ conv' = conv
          ELSE lastOp'.raised = "none" ]_vars

C5_Witness ==
    /\ lastOp.op = "add_message"
    /\ lastOp.raised = "ValueError"
    /\ Len(conv.messages) = 2
    /\ conv.status = "human_needed"

InReadModifyWrite(r) == req[r].pc \in {"classify", "generate", "update_context"}

HoldsMessageOf(msgs, r) ==
    \E k \in 1..Len(msgs) : "id" \in DOMAIN msgs[k] /\ msgs[k].id = r

AppliedInOrder(a, b) ==
    /\ conv.messages = << req[a].msg, req[a].reply, req[b].msg, req[b].reply >>
    /\ conv.ai_confidence_avg.num * 4
         = SumConfidence(conv.messages) * conv.ai_confidence_avg.den

C11_OpenCircuitRejectsEveryOperation ==
    (call.op \in {"get", "put", "clear"} /\ call.open_before)
        => (call.raised = "RedisError" /\ ~call.contacted)

\* C12: a get that the backend answers for a key that does not exist (never
\* written, expired or cleared) raises nothing and returns the empty
\* context, messages = [] and metadata = {}.
C12_MissReturnsEmptyContext ==
    (call.op = "get" /\ ~call.before.exists /\ call.raised # "RedisError")
        => /\ call.raised = "none"
           /\ call.context.messages = << >>
           /\ call.context.metadata = EmptyDict
           /\ call.after = call.before

\* a get answered for a key that was written and then cleared or expired
C12_Witness ==
    /\ call.op = "get" /\ call.contacted /\ call.raised = "none"
    /\ ~call.before.exists
    /\ call.context.messages = << >>
    /\ call.at > 0

\* C13: a get that the backend answers with a string that cannot be
\* decompressed or parsed raises the corrupt-data error, returns no
\* context, and leaves the stored string as it was.
C13_CorruptValueRaises ==
    (/\ call.op = "get" /\ call.contacted /\ call.raised # "RedisError"
     /\ call.before.exists /\ call.before.value \in CorruptValues)
        => /\ call.raised = "ValueError"
           /\ call.context = NoContext
           /\ call.after = call.before

\* put stores the dict compressed: its text is longer than 1024 characters
\* and compresses to less than 0.9 of its length
StoredCompressed(context) ==
    /\ JsonSize(context) > compression_threshold
    /\ ZlibSize(context) * 100 < CompressionRatioPct * JsonSize(context)

C15_CompressedRoundTrip ==
    /\ (call.op = "put" /\ StoredCompressed(call.context)
            /\ call.raised # "RedisError")
          => /\ call.raised = "none"
             /\ call.success = "true"
             /\ call.after.exists
             /\ SliceFrom(CompressedPrefix \o json_dumps(call.context),
                          PrefixSliceIndex) = json_dumps(call.context)
    /\ (/\ call.op = "get" /\ call.contacted /\ call.raised # "RedisError"
        /\ call.before.written_at # Absent
        /\ startswith(call.before.value, CompressedPrefix))
          => /\ call.raised = "none"
             /\ call.context.messages = call.before.origin.messages
             /\ call.context.metadata = call.before.origin.metadata

\* C16: a clear that the backend answers reports success and leaves the
\* key absent, whether or not the key existed.
C16_ClearReportsSuccess ==
    (call.op = "clear" /\ call.raised = "none")
        => (call.success = "true" /\ ~call.after.exists)

\* C17: build_context returns the summaries of the conversation's last
\* min(10, n) messages in their order, never more than 10, and leaves the
\* conversation and the cache backend as they were.
C17_BuildContextWindow ==
    [][(call' # call /\ call'.op = "build_context")
         => LET n == Len(conv.messages)
                k == IF n < ContextWindow THEN n ELSE ContextWindow
                built == call'.context.messages
            IN  /\ Len(built) = k
                /\ Len(built) <= ContextWindow
                /\ \A i \in 1..k :
                      built[i] = MessageSummary(conv.messages[n - k + i])
                /\ conv' = conv
                /\ redis' = redis
                /\ ~call'.contacted]_vars

\* a context built from a conversation of more than 10 messages
C17_Witness ==
    /\ call.op = "build_context"
    /\ Len(conv.messages) > ContextWindow
    /\ call.context.metadata.message_count = Len(conv.messages)
    /\ Len(call.context.messages) = ContextWindow
    /\ call.context.messages[1].created_at = Len(conv.messages) - ContextWindow

\* C18: when the classifier's answer cannot be parsed, classification
\* raises nothing and yields Intent(unknown, 0.0, requires_human = true),
\* and process_message enters the handoff branch without calling the
\* generator.
C18_UnparseableFallsBackToHandoff ==
    \A r \in Req :
        req[r].classifier_output = "malformed" =>
            /\ req[r].failed_at # "classify"
            /\ req[r].intent = MkIntent("unknown", 0, TRUE, EmptyMetadata)
            /\ req[r].msg.intent = req[r].intent
            /\ req[r].path = "handoff"
            /\ req[r].pc # "generate"

C18_Witness ==
    \E r \in Req :
        /\ req[r].classifier_output = "malformed"
        /\ req[r].intent.type = "unknown"
        /\ req[r].path = "handoff"

\* C19: when the context load, the classification and the generation (if
\* any) succeeded, process_message returns a valid outbound Message of
\* the conversation that carries the classified intent and its
\* confidence.
C19_ReturnsValidOutboundMessage ==
    \A r \in Req :
        Answered(r) =>
            /\ req[r].pc \in {"update_context", "returned"}
            /\ ValidateMessage(req[r].reply) = "ok"
            /\ req[r].reply.conversation_id = conv.id
            /\ req[r].reply.direction = "outbound"
            /\ req[r].reply.intent = req[r].intent
            /\ req[r].reply.ai_confidence = req[r].intent.confidence

\* C20: a process_message whose provider calls all succeeded has put the
\* context once, and what it put is the loaded message list followed by
\* the inbound and then the outbound message.
C20_OnePutOfLoadedPlusPair ==
    \A r \in Req :
        (Answered(r) /\ Finished(r)) =>
            /\ req[r].pc = "returned"
            /\ Len(req[r].ctx) >= 2
            /\ req[r].ctx[Len(req[r].ctx) - 1] = req[r].msg
            /\ req[r].ctx[Len(req[r].ctx)] = req[r].reply
            /\ store.present
            /\ \E k \in 1..Len(store.messages) :
                  store.messages[k] = req[r].reply

\* C21: at no time are more than 5 classification and generation calls
\* in flight to the provider.
C21_InFlightAtMostFive ==
    /\ InFlight(llm) <= ProcessingLimit
    /\ llm.sem >= 0
    /\ llm.in_flight.classify >= 0 /\ llm.in_flight.generate >= 0

\* five calls of both kinds in flight while further calls wait
C21_Witness ==
    /\ InFlight(llm) = ProcessingLimit
    /\ llm.in_flight.classify > 0 /\ llm.in_flight.generate > 0
    /\ llm.waiting.classify > 0 /\ llm.waiting.generate > 0

\* C22: never more than 100 requests wait for a model call: with 100
\* waiting, a further request is rejected instead of waiting.
C22_WaitingAtMostQueueSize ==
    Waiters(llm) <= QueueMaxSize

\* The step is a provider call of request r that ends in the transient
\* provider error.
TransientFailureStep(r) ==
    \/ \E reply \in ClassifierReplies :
          reply.kind = "api_error" /\ ClassifyIntent(r, reply)
    \/ \E reply \in GeneratorReplies :
          reply.kind = "api_error" /\ GenerateResponse(r, reply)

\* The step ends an attempt of request r with an error that is not the
\* provider's transient one: a cache error, a validation error or an
\* empty generated text.
NonTransientFailureStep(r) ==
    \/ GetContext(r, FALSE)
    \/ \E reply \in ClassifierReplies :
          reply.kind # "api_error" /\ ClassifyIntent(r, reply)
             /\ req'[r].pc = "failed"
    \/ \E reply \in GeneratorReplies :
          reply.kind # "api_error" /\ GenerateResponse(r, reply)
             /\ req'[r].pc = "failed"

\* C23: a call starts a further attempt only when the attempt before ended
\* in the transient provider error, makes at most 3 attempts, and ends at
\* once, with the error raised, on any other failure.
C23_RetryOnlyTransientUpToThree ==
    [][\A r \in Req :
          /\ req'[r].attempt <= MaxAttempts
          /\ (req[r].pc # "idle" /\ req'[r].attempt # req[r].attempt)
                => /\ TransientFailureStep(r)
                   /\ req'[r].attempt = req[r].attempt + 1
                   /\ req'[r].pc = "get_context"
          /\ (TransientFailureStep(r) /\ req[r].attempt = MaxAttempts)
                => (req'[r].pc = "failed" /\ req'[r].error = "RetryError")
          /\ NonTransientFailureStep(r)
                => /\ req'[r].pc = "failed"
                   /\ req'[r].attempt = req[r].attempt
                   /\ req'[r].error \in
                         {"RedisError", "ValidationError", "ValueError"}]_vars

\* a call that gave up after its third attempt
C23_Witness ==
    \E r \in Req :
        /\ req[r].pc = "failed"
        /\ req[r].attempt = MaxAttempts
        /\ req[r].error = "RetryError"

\* The evaluated intent with its confidence replaced by c.
AtConfidence(c) == [probe.intent EXCEPT !.confidence = c]

\* C24: when should_handoff is true of an intent, it is true of every intent
\* that differs only by a lower confidence, at the same threshold; this
\* holds of the should_handoff of models/intent.py and of the one of
\* models/conversation.py.
C24_HandoffMonotonicInConfidence ==
    (probe.evaluated /\ probe.threshold \in 0..100) =>
        \A c1 \in ProbeConfidences :
            c1 <= probe.intent.confidence =>
                /\ probe.intent_module = "true" =>
                      IntentModuleShouldHandoff(AtConfidence(c1),
                                                probe.threshold) = "true"
                /\ probe.conversation_module = "true" =>
                      should_handoff(AtConfidence(c1))

\* a complaint that hands off only because its confidence is below 0.9,
\* with lower confidences to compare with
C24_Witness ==
    /\ probe.evaluated
    /\ probe.threshold = 70
    /\ probe.intent.type = "complaint"
    /\ probe.intent.confidence = 89
    /\ ~probe.intent.requires_human
    /\ probe.intent_module = "true"
    /\ probe.conversation_module = "false"

\* C28: should_handoff of models/intent.py raises ValueError for every
\* intent when the threshold is outside [0, 1], whatever other handoff
\* condition holds of the intent, and never raises for a threshold inside.
C28_ThresholdOutsideRangeRaises ==
    probe.evaluated =>
        (probe.intent_module = "ValueError"
            <=> ~(0 <= probe.threshold /\ probe.threshold <= 100))

\* an intent that requires a human, evaluated at threshold 1.5
C28_Witness ==
    /\ probe.evaluated
    /\ probe.threshold = 150
    /\ probe.intent.requires_human
    /\ probe.intent.type = "request_human"
    /\ probe.intent_module = "ValueError"

\* The intent of the last message of msgs that carries one.
RECURSIVE LastIntent(_)
LastIntent(msgs) ==
    IF msgs = << >> THEN NoIntent
    ELSE IF msgs[Len(msgs)].intent # NoIntent THEN msgs[Len(msgs)].intent
    ELSE LastIntent(SubSeq(msgs, 1, Len(msgs) - 1))

\* C25: after any sequence of add_message calls current_intent is the
\* intent of the most recently appended message that carries one, and is
\* absent when no appended message carried one; a message without an
\* intent does not change it.
C25_CurrentIntentMirrorsLastIntent ==
    conv.current_intent = LastIntent(conv.messages)

\* two different intents were appended, then a message without an intent
C25_Witness ==
    /\ Len(conv.messages) >= 3
    /\ conv.messages[Len(conv.messages)].intent = NoIntent
    /\ conv.messages[Len(conv.messages) - 1].intent # NoIntent
    /\ conv.messages[1].intent # NoIntent
    /\ conv.messages[1].intent # conv.messages[Len(conv.messages) - 1].intent
    /\ conv.current_intent = conv.messages[Len(conv.messages) - 1].intent
    /\ lastOp.op = "add_message" /\ lastOp.raised = "none"

\* C26: Conversation.should_handoff() returns true exactly when the current
\* intent's should_handoff is true, or ai_confidence_avg < 0.7, or the
\* status is human_needed, or more than 500 ms passed since the last
\* message was created; so it is true whenever the status is human_needed.
C26_ConversationHandoffIsFourConditionRule ==
    lastOp.op = "should_handoff" =>
        /\ lastOp.returned = "true" <=>
              \/ /\ conv.current_intent # NoIntent
                 /\ should_handoff(conv.current_intent)
              \/ conv.ai_confidence_avg.num < 70 * conv.ai_confidence_avg.den
              \/ conv.status = "human_needed"
              \/ /\ Len(conv.messages) > 0
                 /\ lastOp.response_time > 500
        /\ conv.status = "human_needed" => lastOp.returned = "true"

\* true for the status alone: a confident conversation put to human_needed
\* by a status update, asked within the SLA
C26_Witness ==
    /\ lastOp.op = "should_handoff"
    /\ lastOp.returned = "true"
    /\ conv.status = "human_needed"
    /\ Len(conv.messages) > 0
    /\ lastOp.response_time <= 500
    /\ conv.ai_confidence_avg.num >= 70 * conv.ai_confidence_avg.den
    /\ conv.current_intent # NoIntent
    /\ ~should_handoff(conv.current_intent)

\* C27: whatever fails in the background update (add_message rejecting the
\* message, the cache write failing, the encoding of the compressed value
\* failing), _update_conversation raises nothing to its caller, and the
\* response it appended is the one that was returned.
C27_BackgroundFailureNotPropagated ==
    task.op = "update_conversation" =>
        /\ task.raised = "none"
        /\ task.logged # "ValueError" =>
              conv.messages[Len(conv.messages)] = task.response

\* a task whose cache write failed, after it appended the two messages
C27_Witness ==
    /\ task.op = "update_conversation"
    /\ task.logged = "RedisError"
    /\ task.put_called
    /\ task.raised = "none"
    /\ Len(conv.messages) >= 2

\* C29: process_message takes the handoff path, without a generator call,
\* for every message classified as a complaint with confidence below 0.9.
C29_UnsureComplaintTakesHandoffPath ==
    \A r \in Req :
        (/\ req[r].path # "none"
         /\ req[r].intent.type = "complaint"
         /\ req[r].intent.confidence < 90)
            => (req[r].path = "handoff" /\ req[r].gen_calls = 0)

\* C30: a call rejected because the circuit is open is not counted as a
\* failure and does not postpone the reset: it leaves the breaker as it
\* found it, and a get issued 30 seconds or more after the last failure of
\* the backend reaches the backend.
C30_RejectedCallsDoNotPostponeReset ==
    call.op = "get" =>
        /\ call.open_before => call.breaker_after = call.breaker_before
        /\ (\/ call.last_backend_failure = Absent
            \/ call.at - call.last_backend_failure >= reset_timeout)
              => call.contacted

\* C31: only consecutive failures open the circuit: a call is rejected
\* for the open circuit only when the backend failed 3 calls in a row,
\* with no call served in between.
C31_OnlyConsecutiveFailuresOpen ==
    (call.op = "get" /\ call.open_before) =>
        call.failures_in_a_row >= CircuitThreshold

StoredContext == ParseStored(redis.value)

\* C33: when a background update has completed without an error, the
\* stored context is the projection of the conversation: its messages are
\* the summaries of the conversation's last min(10, n) messages in order,
\* its message_count is n, and its status and ai_confidence_avg are the
\* conversation's.
C33_StoredContextIsProjection ==
    (task.op = "update_conversation" /\ task.logged = "none") =>
        /\ redis.exists
        /\ StoredContext.raised = "none"
        /\ LET stored == StoredContext.value
               window == LastK(conv.messages, ContextWindow) IN
             /\ Len(stored.messages) = Len(window)
             /\ \A i \in 1..Len(window) :
                   stored.messages[i] = MessageSummary(window[i])
             /\ stored.metadata.message_count = Len(conv.messages)
             /\ stored.metadata.status = conv.status
             /\ stored.metadata.ai_confidence_avg = conv.ai_confidence_avg

\* a third successful update, after one that handed the conversation off
C33_Witness ==
    /\ task.op = "update_conversation" /\ task.logged = "none"
    /\ Len(conv.messages) = 6
    /\ conv.status = "human_needed"
    /\ conv.messages[Len(conv.messages)].content = "Happy to help"
    /\ redis.exists

\* C34: classification never fails because of what the model answered: a
\* request ends at the classification step only by the provider's failure
\* (retries exhausted) or by cancellation, and an answer that is JSON but
\* no valid classification leaves the step with an intent.
C34_InvalidClassificationNormalised ==
    \A r \in Req :
        /\ req[r].failed_at = "classify" =>
              req[r].error \in {"RetryError", "CancelledError"}
        /\ req[r].classifier_output = "json" => req[r].intent # NoIntent

\* C35: for every classified intent the classify endpoint reports
\* requires_human, and reports it true exactly when process_message takes
\* the handoff path for that intent.
C35_EndpointReportsTheDecision ==
    probe.classify_endpoint # NotCalled =>
        probe.classify_endpoint.requires_human =
            (IF TakesGeneratePath(probe.intent) THEN "false" ELSE "true")

\* C36: when the conversation's status is human_needed, the decision of
\* process_message is the handoff path, without a generator call,
\* whatever intent the new message was classified as.
C36_HumanNeededConversationHandsOff ==
    [][\A r \in Req :
          (/\ conv.status = "human_needed"
           /\ req[r].pc = "classify"
           /\ req'[r].path # "none")
             => (req'[r].path = "handoff" /\ req'[r].pc # "generate")]_vars

\* C37: once the status is completed or archived, no add_message call
\* changes it; only the status update does.
C37_TerminalStatusKept ==
    [][ (/\ conv.status \in {"completed", "archived"}
         /\ lastOp'.op = "add_message")
            => conv'.status = conv.status ]_vars

\* C38: the context put is the last step of process_message: a step that
\* ends an attempt with an error of the context load, the classification
\* or the generation, whether the call is retried or fails, leaves the
\* stored context as it was, and the stored context changes only by a
\* step that reaches the put.
C38_FailedCallLeavesStoredContext ==
    [][/\ \A r \in Req :
            (\/ /\ req'[r].pc = "failed" /\ req[r].pc # "failed"
                /\ req'[r].failed_at \in {"get_context", "classify", "generate"}
             \/ /\ req[r].pc # "idle"
                /\ req'[r].attempt > req[r].attempt)
               => store' = store
       /\ store' # store =>
            \E r \in Req : /\ req'[r].pc = "update_context"
                           /\ req[r].pc # "update_context"]_vars

\* a call that gave up at the generation step of its third attempt, the
\* stored context being the one it found
C38_Witness ==
    \E r \in Req :
        /\ req[r].pc = "failed"
        /\ req[r].failed_at = "generate"
        /\ req[r].attempt = MaxAttempts
        /\ req[r].gen_calls >= 1
        /\ store = EmptyContext

\* Every permit is either free or held by a call in flight.
PermitsConserved ==
    /\ llm.sem + InFlight(llm) = ProcessingLimit
    /\ InFlight(llm) = 0 => llm.sem = ProcessingLimit

\* Calls wait only while a permit is free to take or a call in flight
\* will release one.
NoDeadlock ==
    Waiters(llm) > 0 => (llm.sem > 0 \/ InFlight(llm) > 0)

====
